---- MODULE Spec2Model ----
(***************************************************************************)
(* dTAO-Monitor: the polling/alerting engine of src/src/price_monitor.py   *)
(* (PriceMonitor), src/src/price_alarm.py (PriceAlarm),                    *)
(* src/src/alert_manager.py (AlertManager) and                             *)
(* src/src/notification_manager.py (NotificationManager).                  *)
(*                                                                         *)
(* Prices are naturals 0..MaxPrice.  A percent change (new-old)/old*100 is *)
(* kept as the exact fraction num/den with den > 0, and compared with a    *)
(* threshold by cross-multiplication, so no rounding enters the model.     *)
(***************************************************************************)
EXTENDS Integers, FiniteSets

\* ---------------------------------------------------------------- bounds
MaxPrice == 2       \* PriceSource returns a price in 0..MaxPrice, or fails
MaxElapsed == 2     \* a cycle takes 0..MaxElapsed time units
MaxSubnets == 11    \* len(config.subnets) of the run with a full pool

\* ------------------------------------------------------ program constants
MaxWorkers == 10    \* ThreadPoolExecutor(max_workers=min(len(subnets), 10))

\* ------------------------------------------------------------ value space
None == -1          \* Python None (Optional[float] that is absent)
Err == -2           \* the upstream call raised: fetch_subnet_info returns None
Prices == 0..MaxPrice
Results == Prices \cup {Err}
SubnetCounts == {1, 2}        \* len(config.subnets)
Thresholds == {0, 100}        \* config.threshold, in percent
AlarmThresholds == {0, 100}   \* config.alarm_threshold, in percent
Intervals == {0, 1}           \* config.interval, in time units
Elapsed == 0..MaxElapsed      \* time.time() - start_time, in time units

Abs(x) == IF x < 0 THEN -x ELSE x
Min(x, y) == IF x < y THEN x ELSE y
Max(x, y) == IF x > y THEN x ELSE y

VARIABLES
    config,           \* Config: the switches and thresholds, fixed at load
    main,             \* the main thread: [pc, idx, init_failed, elapsed,
                      \*   sleep_time, interrupted, shut]
    subtensor_lock,   \* PriceMonitor.subtensor_lock: its holder, or None
    alarm_lock,       \* PriceAlarm.subtensor_lock: its holder, or None
    last_prices,      \* PriceMonitor.last_prices[netuid]
    last_check_time,  \* PriceMonitor.last_check_time[netuid]
    initial_prices,   \* PriceAlarm.initial_prices.get(netuid)
    task              \* the executor's future of each subnet in this cycle

vars == <<config, main, subtensor_lock, alarm_lock, last_prices,
          last_check_time, initial_prices, task>>

MainThread == 0       \* lock holder id of the main thread; subnets are 1..n
Subnets == 1..config.n

\* config.subnets[a].netuid, the key of subnet a's price records, and the
\* keys of the dictionaries built over config.subnets.  In Spec, FairSpec
\* and PoolSpec the netuid of subnet a is a.
Netuid(a) == config.netuids[a]
Netuids == {config.netuids[i] : i \in 1..config.n}

\* last_check_time holds datetime.now(); the model keeps its age only:
\* Fresh = stamped in the current cycle, Stale = stamped in an earlier one.
Fresh == 1
Stale == 0

\* The switches that decide the control flow and the price records.
EngineConfigs ==
    [threshold : Thresholds,
     notifications_on : BOOLEAN,
     alarm_enabled : BOOLEAN,
     alarm_threshold : AlarmThresholds,
     alarm_negative_only : BOOLEAN]

\* The settings no price record depends on: the switches that only gate a
\* dispatch or a log line (play_alert, send_notification and the logging
\* branch read them, nothing else does), and the interval, which only
\* monitor_loop line 171 reads.
DispatchConfigs ==
    [alerts_on : BOOLEAN,
     log_threshold_only : BOOLEAN,
     alerts_positive_only : BOOLEAN,
     supported : BOOLEAN,
     interval : Intervals]

\* config.py lines 38-41 (the defaults), on a host with notifications,
\* with an interval of one time unit.
DispatchDefaults ==
    [alerts_on |-> TRUE, log_threshold_only |-> FALSE,
     alerts_positive_only |-> FALSE, supported |-> TRUE, interval |-> 1]

MakeConfig(n, e, d) ==
    [n |-> n,
     threshold |-> e.threshold,
     notifications_on |-> e.notifications_on,
     alarm_enabled |-> e.alarm_enabled,
     alarm_threshold |-> e.alarm_threshold,
     alarm_negative_only |-> e.alarm_negative_only,
     alerts_on |-> d.alerts_on,
     log_threshold_only |-> d.log_threshold_only,
     alerts_positive_only |-> d.alerts_positive_only,
     supported |-> d.supported,
     interval |-> d.interval,
     netuids |-> [i \in 1..n |-> i]]

\* The engine switches of a run with several subnets: every combination
\* with the alarm off; with the alarm on, both alarm thresholds, with and
\* without notifications, under a cycle threshold of 100 and alarms in
\* both directions.
MultiEngineConfigs ==
    {e \in EngineConfigs :
        e.alarm_enabled => (e.threshold = 100 /\ ~e.alarm_negative_only)}

\* A run with one subnet takes every combination of the switches; a run
\* with several subnets takes the engine switches of MultiEngineConfigs
\* and the dispatch defaults.
Configs ==
    {MakeConfig(1, e, d) : e \in EngineConfigs, d \in DispatchConfigs}
    \cup {MakeConfig(n, e, DispatchDefaults) :
             n \in SubnetCounts \ {1}, e \in MultiEngineConfigs}

\* A future that has not been submitted yet / a freshly submitted one.
NewTask(pc, prev) ==
    [pc |-> pc, sample |-> None, prev |-> prev, fetches |-> 0,
     alert |-> "none", sound |-> FALSE, notif |-> FALSE, log |-> "none",
     checked |-> FALSE, alarm |-> "none", alarmNotif |-> FALSE,
     alarmSound |-> FALSE, raised |-> FALSE]

\* ------------------------------------------------------------ pure helpers

\* Variant: a missing last price is taken for an unchanged one (0%).
calculate_price_change_no_initial(last_price, current_price) ==
    IF last_price = None
    THEN [kind |-> "value", num |-> 0, den |-> 1]
    ELSE IF last_price = 0
    THEN [kind |-> "zerodiv", num |-> 0, den |-> 1]
    ELSE [kind |-> "value", num |-> (current_price - last_price) * 100,
          den |-> last_price]

\* PriceMonitor.calculate_price_change: None without a previous price, else
\* ((current - last) / last) * 100, a ZeroDivisionError when last is 0.
calculate_price_change(last_price, current_price) ==
    IF last_price = None
    THEN [kind |-> "none", num |-> 0, den |-> 1]
    ELSE IF last_price = 0
    THEN [kind |-> "zerodiv", num |-> 0, den |-> 1]
    ELSE [kind |-> "value", num |-> (current_price - last_price) * 100,
          den |-> last_price]

\* Variant: the threshold itself does not count as crossed.
ThresholdCrossed_strict(change, threshold) ==
    Abs(change.num) > threshold * change.den

\* Variant: every change counts as crossed.
ThresholdCrossed_always(change, threshold) == TRUE

\* monitor_subnet line 113: abs(price_change) >= subnet.threshold
ThresholdCrossed(change, threshold) ==
    Abs(change.num) >= threshold * change.den

\* monitor_subnet line 118: the flag handed to play_alert, price_change > 0
AlertFlag(change) == change.num > 0

\* Variant: the sound is played whatever alerts_on says.
play_alert_ignores_switch(is_positive) ==
    IF ~is_positive /\ config.alerts_positive_only THEN FALSE
    ELSE TRUE

\* AlertManager.play_alert: TRUE iff the sound thread is started.
play_alert(is_positive) ==
    IF ~is_positive /\ config.alerts_positive_only THEN FALSE
    ELSE IF ~config.alerts_on THEN FALSE
    ELSE TRUE

\* Variant: a negative change is notified like a positive one.
send_notification_any_sign(change_num) ==
    IF ~config.supported THEN FALSE
    ELSE TRUE

\* Variant: the notification is sent whatever the host supports.
send_notification_unchecked(change_num) ==
    IF ~(change_num > 0) /\ config.alerts_positive_only THEN FALSE
    ELSE TRUE

\* NotificationManager.send_notification: TRUE iff the notification thread
\* is started (change is the sign-carrying numerator of the change).
send_notification(change_num) ==
    IF ~config.supported THEN FALSE
    ELSE IF ~(change_num > 0) /\ config.alerts_positive_only THEN FALSE
    ELSE TRUE

\* Variant: a failed initializing fetch stores a price of 0.
InitialPriceOf_zero(result) == IF result = Err THEN 0 ELSE result

\* PriceAlarm._initialize_prices lines 41-46: what is stored for a subnet.
InitialPriceOf(result) == IF result = Err THEN None ELSE result

\* PriceAlarm.check_price_change lines 70-75: the alarm is on and the
\* subnet has an initial price.
AlarmArmed(a) == config.alarm_enabled /\ initial_prices[Netuid(a)] # None

\* Variant: the positive test is made before the negative one.
AlarmDecision_swapped(initial_price, current_price) ==
    IF initial_price = 0 THEN "raise"
    ELSE LET num == (current_price - initial_price) * 100
             den == initial_price
         IN IF ~config.alarm_negative_only
               /\ num >= config.alarm_threshold * den THEN "pos"
            ELSE IF num <= -(config.alarm_threshold * den) THEN "neg"
            ELSE "none"

\* PriceAlarm.check_price_change lines 82-94: the decision on a sample.
\* "raise" is the ZeroDivisionError of line 82 when the initial price is 0.
AlarmDecision(initial_price, current_price) ==
    IF initial_price = 0 THEN "raise"
    ELSE LET num == (current_price - initial_price) * 100
             den == initial_price
         IN IF num <= -(config.alarm_threshold * den) THEN "neg"
            ELSE IF ~config.alarm_negative_only
                    /\ num >= config.alarm_threshold * den THEN "pos"
            ELSE "none"

\* Variant: the comparison is made against the subnet's initial price.
LastPriceOf_initial(a) == initial_prices[Netuid(a)]

\* calculate_price_change line 88: the reference of the cycle comparison.
LastPriceOf(a) == last_prices[Netuid(a)]

\* Variant: a task that has raised a cycle alert ends there.
AfterCompare_alert_ends(crossed) == IF crossed THEN "done" ELSE "baseline"

\* monitor_subnet lines 143-144: the baseline check follows the comparison
\* whether or not a cycle alert was raised.
AfterCompare(crossed) == "baseline"

\* Variant: the sleep is the plain difference.
SleepTime_unclamped(interval, elapsed) == interval - elapsed

\* monitor_loop line 171: sleep_time = max(0, interval - elapsed)
SleepTime(interval, elapsed) == Max(0, interval - elapsed)

\* Variant: the pool has one worker per subnet.
max_workers_uncapped == config.n

\* PriceMonitor.__init__ lines 45-47: the size of the thread pool.
max_workers == Min(config.n, MaxWorkers)

Running == {a \in Subnets : task[a].pc \notin {"idle", "queued", "done"}}
Queued == {a \in Subnets : task[a].pc = "queued"}

\* The PriceSource calls in flight: a thread is inside subtensor.subnet().
InFlight ==
    {a \in Subnets : task[a].pc \in {"fetching", "alarm_fetching"}}
    \cup (IF main.pc \in {"alarm_init_fetching", "info_fetching"}
          THEN {MainThread} ELSE {})

\* ---------------------------------------------------------------- startup

\* PriceMonitor.__init__ up to line 39 and PriceAlarm.__init__ up to line
\* 30: every price record is None, both locks are free.
Init ==
    /\ config \in Configs
    /\ main = [pc |-> "alarm_init", idx |-> 1, init_failed |-> {},
               elapsed |-> None, sleep_time |-> None,
               interrupted |-> FALSE, shut |-> FALSE]
    /\ subtensor_lock = None
    /\ alarm_lock = None
    /\ last_prices = [k \in Netuids |-> None]
    /\ last_check_time = [k \in Netuids |-> None]
    /\ initial_prices = [k \in Netuids |-> None]
    /\ task = [a \in 1..config.n |-> NewTask("idle", None)]

\* The main thread's position once a startup loop has handled subnet idx.
AfterSubnet(pc, next_pc) ==
    IF main.idx < config.n
    THEN [main EXCEPT !.pc = pc, !.idx = main.idx + 1]
    ELSE [main EXCEPT !.pc = next_pc, !.idx = 1]

\* Variant: the initializing fetch is made whatever alarm_enabled says.
initialize_prices_fetch_unguarded ==
    /\ main.pc = "alarm_init"
    /\ alarm_lock = None
    /\ alarm_lock' = MainThread
    /\ main' = [main EXCEPT !.pc = "alarm_init_fetching"]
    /\ UNCHANGED <<config, subtensor_lock, last_prices, last_check_time,
                   initial_prices, task>>

\* PriceAlarm._initialize_prices lines 35-36: the alarm is disabled.
initialize_prices_disabled ==
    /\ main.pc = "alarm_init"
    /\ ~config.alarm_enabled
    /\ main' = [main EXCEPT !.pc = "info_init", !.idx = 1]
    /\ UNCHANGED <<config, subtensor_lock, alarm_lock, last_prices,
                   last_check_time, initial_prices, task>>

\* _initialize_prices line 40 into PriceAlarm._fetch_subnet_info line 58:
\* the lock is taken and the upstream call begins.
initialize_prices_fetch ==
    /\ main.pc = "alarm_init"
    /\ config.alarm_enabled
    /\ alarm_lock = None
    /\ alarm_lock' = MainThread
    /\ main' = [main EXCEPT !.pc = "alarm_init_fetching"]
    /\ UNCHANGED <<config, subtensor_lock, last_prices, last_check_time,
                   initial_prices, task>>

\* _fetch_subnet_info lines 59-62 return, and _initialize_prices lines
\* 41-46 store the initial price of the subnet (None on failure).
\* main.init_failed remembers the subnets whose initializing fetch failed.
initialize_prices_store ==
    /\ main.pc = "alarm_init_fetching"
    /\ \E r \in Results :
          /\ initial_prices' =
                 [initial_prices EXCEPT
                     ![Netuid(main.idx)] = InitialPriceOf(r)]
          /\ main' = [AfterSubnet("alarm_init", "info_init") EXCEPT
                         !.init_failed = IF r = Err THEN @ \cup {main.idx}
                                         ELSE @]
    /\ alarm_lock' = None
    /\ UNCHANGED <<config, subtensor_lock, last_prices, last_check_time,
                   task>>

\* PriceMonitor._update_subnet_info line 57 into fetch_subnet_info line 72.
update_subnet_info_fetch ==
    /\ main.pc = "info_init"
    /\ subtensor_lock = None
    /\ subtensor_lock' = MainThread
    /\ main' = [main EXCEPT !.pc = "info_fetching"]
    /\ UNCHANGED <<config, alarm_lock, last_prices, last_check_time,
                   initial_prices, task>>

\* fetch_subnet_info lines 73-76 return, with a result or with None;
\* _update_subnet_info lines 58-59 refresh the display name only, no price
\* record is written.
update_subnet_info_store ==
    /\ main.pc = "info_fetching"
    /\ subtensor_lock' = None
    /\ main' = AfterSubnet("info_init", "loop")
    /\ UNCHANGED <<config, alarm_lock, last_prices, last_check_time,
                   initial_prices, task>>

\* -------------------------------------------------------------- scheduler

\* A stamp of an earlier cycle, seen from the cycle that starts now.
Aged(t) == IF t = None THEN None ELSE Stale

\* monitor_loop line 164 and monitor_all_subnets lines 149-155: one future
\* per subnet is submitted to the executor.
monitor_all_subnets_submit ==
    /\ main.pc = "loop"
    /\ task' = [a \in Subnets |->
                    NewTask("queued", last_prices[Netuid(a)])]
    /\ last_check_time' = [k \in Netuids |-> Aged(last_check_time[k])]
    /\ main' = [main EXCEPT !.pc = "wait"]
    /\ UNCHANGED <<config, subtensor_lock, alarm_lock, last_prices,
                   initial_prices>>

\* Variant: the wait returns on the first finished future.
AllDone_any == \E a \in Subnets : task[a].pc = "done"

\* concurrent.futures.wait(futures), line 158: every future has finished.
AllDone == \A a \in Subnets : task[a].pc = "done"

\* Variant: the barrier re-raises the exception of a future, as
\* future.result() would; it leaves monitor_loop through its finally.
monitor_all_subnets_wait_reraise ==
    /\ main.pc = "wait"
    /\ AllDone
    /\ \E T \in Elapsed :
          main' = IF \E a \in Subnets : task[a].raised
                  THEN [main EXCEPT !.pc = "shutdown"]
                  ELSE [main EXCEPT
                           !.pc = "sleep",
                           !.elapsed = T,
                           !.sleep_time = SleepTime(config.interval, T)]
    /\ UNCHANGED <<config, subtensor_lock, alarm_lock, last_prices,
                   last_check_time, initial_prices, task>>

\* monitor_all_subnets line 158 returns once every future has finished,
\* whatever the futures hold; monitor_loop lines 170-171 then measure the
\* time the cycle took and derive the sleep.
monitor_all_subnets_wait ==
    /\ main.pc = "wait"
    /\ AllDone
    /\ \E T \in Elapsed :
          main' = [main EXCEPT !.pc = "sleep",
                               !.elapsed = T,
                               !.sleep_time = SleepTime(config.interval, T)]
    /\ UNCHANGED <<config, subtensor_lock, alarm_lock, last_prices,
                   last_check_time, initial_prices, task>>

\* monitor_loop lines 173-175: the sleep (skipped when sleep_time is 0)
\* ends and the loop starts over.
monitor_loop_sleep ==
    /\ main.pc = "sleep"
    /\ main' = [main EXCEPT !.pc = "loop", !.elapsed = None,
                            !.sleep_time = None]
    /\ UNCHANGED <<config, subtensor_lock, alarm_lock, last_prices,
                   last_check_time, initial_prices, task>>

\* ------------------------------------------------ interrupt and shutdown

\* A KeyboardInterrupt is raised in the main thread while it is inside
\* monitor_loop (between two cycles, at the barrier or asleep): the
\* exception leaves the while loop for the finally of line 176.
keyboard_interrupt ==
    /\ main.pc \in {"loop", "wait", "sleep"}
    /\ main' = [main EXCEPT !.pc = "shutdown", !.interrupted = TRUE,
                            !.elapsed = None, !.sleep_time = None]
    /\ UNCHANGED <<config, subtensor_lock, alarm_lock, last_prices,
                   last_check_time, initial_prices, task>>

\* Variant: the pool is shut down without waiting, shutdown(wait=False).
executor_shutdown_nowait ==
    /\ main.pc = "shutdown"
    /\ main' = [main EXCEPT !.pc = "cleanup", !.shut = TRUE]
    /\ UNCHANGED <<config, subtensor_lock, alarm_lock, last_prices,
                   last_check_time, initial_prices, task>>

\* monitor_loop lines 176-178: executor.shutdown() takes no new future and
\* returns once the submitted ones, queued or running, have finished.
executor_shutdown ==
    /\ main.pc = "shutdown"
    /\ \A a \in Subnets : task[a].pc \in {"idle", "done"}
    /\ main' = [main EXCEPT !.pc = "cleanup", !.shut = TRUE]
    /\ UNCHANGED <<config, subtensor_lock, alarm_lock, last_prices,
                   last_check_time, initial_prices, task>>

\* main.py lines 84-93 and 61-69: the exception reaches main, cleanup()
\* stops caffeinate and calls sys.exit(0); the process is gone.
cleanup ==
    /\ main.pc = "cleanup"
    /\ main' = [main EXCEPT !.pc = "exited"]
    /\ UNCHANGED <<config, subtensor_lock, alarm_lock, last_prices,
                   last_check_time, initial_prices, task>>

\* ------------------------------------------------------- per-subnet tasks

\* ThreadPoolExecutor: a free worker takes the oldest queued future and
\* calls monitor_subnet, whose first statement (line 99) is the fetch.
executor_run(a) ==
    /\ task[a].pc = "queued"
    /\ Cardinality(Running) < max_workers
    /\ \A b \in Queued : a <= b
    /\ task' = [task EXCEPT ![a].pc = "fetch_wait"]
    /\ UNCHANGED <<config, main, subtensor_lock, alarm_lock, last_prices,
                   last_check_time, initial_prices>>

\* PriceMonitor.fetch_subnet_info line 72: the lock is taken, and line 73:
\* the upstream call begins.
fetch_subnet_info_enter(a) ==
    /\ task[a].pc = "fetch_wait"
    /\ subtensor_lock = None
    /\ subtensor_lock' = a
    /\ task' = [task EXCEPT ![a].pc = "fetching",
                            ![a].fetches = @ + 1]
    /\ UNCHANGED <<config, main, alarm_lock, last_prices, last_check_time,
                   initial_prices>>

\* Variant: the task goes on whatever the fetch returned.
AfterFetch_noskip(r) == "process"

\* monitor_subnet lines 99-101: a failed fetch ends the task.
AfterFetch(r) == IF r = Err THEN "done" ELSE "process"

\* Variant: the lock is not released when the call returns.
fetch_subnet_info_return_keep(a) ==
    /\ task[a].pc = "fetching"
    /\ \E r \in Results :
          task' = [task EXCEPT ![a].pc = AfterFetch(r), ![a].sample = r]
    /\ UNCHANGED <<config, main, subtensor_lock, alarm_lock, last_prices,
                   last_check_time, initial_prices>>

\* Variant: the lock is released on a successful return only; a call that
\* raises leaves it held.
fetch_subnet_info_return_keep_on_error(a) ==
    /\ task[a].pc = "fetching"
    /\ \E r \in Results :
          /\ task' = [task EXCEPT ![a].pc = AfterFetch(r), ![a].sample = r]
          /\ subtensor_lock' = IF r = Err THEN subtensor_lock ELSE None
    /\ UNCHANGED <<config, main, alarm_lock, last_prices, last_check_time,
                   initial_prices>>

\* fetch_subnet_info lines 73-76: the upstream call returns a price or
\* raises (the result is then None), and the lock is released either way.
fetch_subnet_info_return(a) ==
    /\ task[a].pc = "fetching"
    /\ \E r \in Results :
          task' = [task EXCEPT ![a].pc = AfterFetch(r), ![a].sample = r]
    /\ subtensor_lock' = None
    /\ UNCHANGED <<config, main, alarm_lock, last_prices, last_check_time,
                   initial_prices>>

\* fetch_subnet_info lines 74-76 and monitor_subnet lines 100-101: the
\* case of fetch_subnet_info_return in which the upstream call raises.
fetch_subnet_info_fail(a) ==
    /\ task[a].pc = "fetching"
    /\ task' = [task EXCEPT ![a].pc = AfterFetch(Err), ![a].sample = Err]
    /\ subtensor_lock' = None
    /\ UNCHANGED <<config, main, alarm_lock, last_prices, last_check_time,
                   initial_prices>>

\* Variant: the blocked call is made outside the lock.
fetch_subnet_info_hang_unlocked(a) ==
    /\ task[a].pc = "fetching"
    /\ task' = [task EXCEPT ![a].pc = "hung"]
    /\ subtensor_lock' = None
    /\ UNCHANGED <<config, main, alarm_lock, last_prices, last_check_time,
                   initial_prices>>

\* fetch_subnet_info line 73: the upstream call blocks for good.  The call
\* has no timeout, so the task stays inside the with block of line 72,
\* holding the lock ("hung").
fetch_subnet_info_hang(a) ==
    /\ task[a].pc = "fetching"
    /\ task' = [task EXCEPT ![a].pc = "hung"]
    /\ UNCHANGED <<config, main, subtensor_lock, alarm_lock, last_prices,
                   last_check_time, initial_prices>>

\* monitor_subnet lines 103-141: compare with the last price, alert, log,
\* then record the sample.  A last price of 0 makes line 91 raise, and the
\* exception ends the task before line 140.
monitor_subnet(a) ==
    /\ task[a].pc = "process"
    /\ LET current_price == task[a].sample
           change == calculate_price_change(LastPriceOf(a), current_price)
           crossed == /\ change.kind = "value"
                      /\ ThresholdCrossed(change, config.threshold)
       IN IF change.kind = "zerodiv"
          THEN /\ task' = [task EXCEPT ![a].pc = "done",
                                       ![a].raised = TRUE]
               /\ UNCHANGED <<last_prices, last_check_time>>
          ELSE /\ task' = [task EXCEPT ![a] = [@ EXCEPT
                     !.pc = AfterCompare(crossed),
                     !.alert = IF ~crossed THEN "none"
                               ELSE IF AlertFlag(change) THEN "pos"
                               ELSE "neg",
                     !.sound = crossed /\ play_alert(AlertFlag(change)),
                     !.notif = /\ crossed
                               /\ config.notifications_on
                               /\ send_notification(change.num),
                     !.log = IF change.kind = "none" THEN "initial"
                             ELSE IF crossed THEN "important"
                             ELSE IF ~config.log_threshold_only
                             THEN "normal"
                             ELSE "none"]]
               /\ last_prices' =
                      [last_prices EXCEPT ![Netuid(a)] = current_price]
               /\ last_check_time' =
                      [last_check_time EXCEPT ![Netuid(a)] = Fresh]
    /\ UNCHANGED <<config, main, subtensor_lock, alarm_lock, initial_prices>>

\* monitor_subnet line 144, PriceAlarm.monitor_subnet_with_cache: the
\* baseline check on the sample the task has already fetched.
monitor_subnet_with_cache(a) ==
    /\ task[a].pc = "baseline"
    /\ LET decision == AlarmDecision(initial_prices[Netuid(a)],
                                     task[a].sample)
       IN task' = [task EXCEPT ![a] = [@ EXCEPT
              !.checked = TRUE,
              !.pc = IF ~AlarmArmed(a) THEN "done"
                     ELSE IF decision \in {"neg", "pos"} THEN "trigger"
                     ELSE "done",
              !.raised = AlarmArmed(a) /\ decision = "raise",
              !.alarm = IF AlarmArmed(a) /\ decision \in {"neg", "pos"}
                        THEN decision ELSE "none"]]
    /\ UNCHANGED <<config, main, subtensor_lock, alarm_lock, last_prices,
                   last_check_time, initial_prices>>

\* Variant: the alarm notifies whatever notifications_on says.
trigger_alarm_always_notify(a) ==
    /\ task[a].pc = "trigger"
    /\ task' = [task EXCEPT ![a].pc = "alarm_fetch_wait"]
    /\ UNCHANGED <<config, main, subtensor_lock, alarm_lock, last_prices,
                   last_check_time, initial_prices>>

\* PriceAlarm._trigger_alarm line 105: with notifications on, the price
\* argument of line 109 is fetched first; otherwise the sound comes next:
\* line 117 starts the player with subprocess.run and the task waits in
\* that call ("alarm_playing") until the player has exited.
trigger_alarm(a) ==
    /\ task[a].pc = "trigger"
    /\ task' = [task EXCEPT ![a].pc = IF config.notifications_on
                                      THEN "alarm_fetch_wait"
                                      ELSE "alarm_playing"]
    /\ UNCHANGED <<config, main, subtensor_lock, alarm_lock, last_prices,
                   last_check_time, initial_prices>>

\* _trigger_alarm line 109 into PriceAlarm._fetch_subnet_info line 58: the
\* alarm's own lock is taken and its own upstream call begins.
trigger_alarm_fetch(a) ==
    /\ task[a].pc = "alarm_fetch_wait"
    /\ alarm_lock = None
    /\ alarm_lock' = a
    /\ task' = [task EXCEPT ![a].pc = "alarm_fetching",
                            ![a].fetches = @ + 1]
    /\ UNCHANGED <<config, main, subtensor_lock, last_prices,
                   last_check_time, initial_prices>>

\* Variant: the alarm's lock is not released after the fetch of line 109.
trigger_alarm_notify_keep(a) ==
    /\ task[a].pc = "alarm_fetching"
    /\ \E r \in Results :
          IF r = Err
          THEN task' = [task EXCEPT ![a].pc = "done", ![a].raised = TRUE]
          ELSE task' = [task EXCEPT
                  ![a].pc = "alarm_playing",
                  ![a].alarmNotif =
                      send_notification(task[a].sample
                                          - initial_prices[Netuid(a)])]
    /\ UNCHANGED <<config, main, subtensor_lock, alarm_lock, last_prices,
                   last_check_time, initial_prices>>

\* _fetch_subnet_info lines 59-62 return.  On a failure line 109 reads
\* .price of None and the exception ends the task; otherwise
\* send_notification is called with the alarm's change (lines 106-112)
\* and line 117 starts the player.
trigger_alarm_notify(a) ==
    /\ task[a].pc = "alarm_fetching"
    /\ \E r \in Results :
          IF r = Err
          THEN task' = [task EXCEPT ![a].pc = "done", ![a].raised = TRUE]
          ELSE task' = [task EXCEPT
                  ![a].pc = "alarm_playing",
                  ![a].alarmNotif =
                      send_notification(task[a].sample
                                          - initial_prices[Netuid(a)])]
    /\ alarm_lock' = None
    /\ UNCHANGED <<config, main, subtensor_lock, last_prices,
                   last_check_time, initial_prices>>

\* Variant: an alarm that has fired takes the sample as the new baseline.
trigger_alarm_sound_rebaseline(a) ==
    /\ task[a].pc = "alarm_playing"
    /\ task' = [task EXCEPT ![a].pc = "done", ![a].alarmSound = TRUE]
    /\ initial_prices' =
           [initial_prices EXCEPT ![Netuid(a)] = task[a].sample]
    /\ UNCHANGED <<config, main, subtensor_lock, alarm_lock, last_prices,
                   last_check_time>>

\* _trigger_alarm lines 117-125: subprocess.run returns when the player
\* has exited (an error of the player is caught at line 124), and the task
\* ends.
trigger_alarm_sound(a) ==
    /\ task[a].pc = "alarm_playing"
    /\ task' = [task EXCEPT ![a].pc = "done", ![a].alarmSound = TRUE]
    /\ UNCHANGED <<config, main, subtensor_lock, alarm_lock, last_prices,
                   last_check_time, initial_prices>>

\* ---------------------------------------------------------- specification

\* Every step the program takes by itself.
Program ==
    \/ initialize_prices_disabled
    \/ initialize_prices_fetch
    \/ initialize_prices_store
    \/ update_subnet_info_fetch
    \/ update_subnet_info_store
    \/ monitor_all_subnets_submit
    \/ monitor_all_subnets_wait
    \/ monitor_loop_sleep
    \/ executor_shutdown
    \/ cleanup
    \/ \E a \in Subnets : executor_run(a)
    \/ \E a \in Subnets : fetch_subnet_info_enter(a)
    \/ \E a \in Subnets : fetch_subnet_info_return(a)
    \/ \E a \in Subnets : monitor_subnet(a)
    \/ \E a \in Subnets : monitor_subnet_with_cache(a)
    \/ \E a \in Subnets : trigger_alarm(a)
    \/ \E a \in Subnets : trigger_alarm_fetch(a)
    \/ \E a \in Subnets : trigger_alarm_notify(a)
    \/ \E a \in Subnets : trigger_alarm_sound(a)

\* The program's steps and the interrupt that may reach it.
Next ==
    \/ Program
    \/ keyboard_interrupt

Spec == Init /\ [][Next]_vars

\* The runs checked for progress: one subnet under every configuration,
\* and two subnets with notifications and the alarm on, where a task can
\* take every path of monitor_subnet and _trigger_alarm.
FairConfigs ==
    {c \in Configs :
        \/ c.n = 1
        \/ /\ c.threshold = 100
           /\ c.notifications_on
           /\ c.alarm_enabled
           /\ c.alarm_threshold = 100
           /\ ~c.alarm_negative_only}

FairInit == Init /\ config \in FairConfigs

\* The threads are scheduled fairly and every upstream call and player
\* comes back; the interrupt is up to the environment.
FairSpec == FairInit /\ [][Next]_vars /\ WF_vars(Program)

\* The pool with more subnets than workers, while the upstream is down:
\* every fetch fails, so that no price record enters the state.
PoolConfig(n) ==
    MakeConfig(n,
               [threshold |-> 100, notifications_on |-> FALSE,
                alarm_enabled |-> FALSE, alarm_threshold |-> 100,
                alarm_negative_only |-> FALSE],
               DispatchDefaults)

PoolInit ==
    /\ config \in {PoolConfig(n) : n \in (MaxWorkers + 1)..MaxSubnets}
    /\ main = [pc |-> "alarm_init", idx |-> 1, init_failed |-> {},
               elapsed |-> None, sleep_time |-> None,
               interrupted |-> FALSE, shut |-> FALSE]
    /\ subtensor_lock = None
    /\ alarm_lock = None
    /\ last_prices = [k \in Netuids |-> None]
    /\ last_check_time = [k \in Netuids |-> None]
    /\ initial_prices = [k \in Netuids |-> None]
    /\ task = [a \in 1..config.n |-> NewTask("idle", None)]

PoolNext ==
    \/ initialize_prices_disabled
    \/ update_subnet_info_fetch
    \/ update_subnet_info_store
    \/ monitor_all_subnets_submit
    \/ monitor_all_subnets_wait
    \/ monitor_loop_sleep
    \/ \E a \in Subnets : executor_run(a)
    \/ \E a \in Subnets : fetch_subnet_info_enter(a)
    \/ \E a \in Subnets : fetch_subnet_info_fail(a)

PoolSpec == PoolInit /\ [][PoolNext]_vars

\* The runs of FairInit with an upstream whose call may block for good.
HangNext ==
    \/ Next
    \/ \E a \in Subnets : fetch_subnet_info_hang(a)

HangSpec == FairInit /\ [][HangNext]_vars

\* A configuration that lists the same netuid twice: Config.from_yaml
\* (config.py lines 77-84) appends one SubnetConfig per list entry and
\* compares no netuids.
DupConfigs ==
    {[c EXCEPT !.netuids = [i \in 1..c.n |-> 1]] :
        c \in {d \in FairConfigs : d.n = 2}
              \cup {d \in Configs : /\ d.n = 2
                                     /\ ~d.alarm_enabled
                                     /\ d.notifications_on
                                     /\ d.threshold = 100
                                     /\ d.alarm_threshold = 100
                                     /\ ~d.alarm_negative_only}}

DupInit ==
    /\ config \in DupConfigs
    /\ main = [pc |-> "alarm_init", idx |-> 1, init_failed |-> {},
               elapsed |-> None, sleep_time |-> None,
               interrupted |-> FALSE, shut |-> FALSE]
    /\ subtensor_lock = None
    /\ alarm_lock = None
    /\ last_prices = [k \in Netuids |-> None]
    /\ last_check_time = [k \in Netuids |-> None]
    /\ initial_prices = [k \in Netuids |-> None]
    /\ task = [a \in 1..config.n |-> NewTask("idle", None)]

DupSpec == DupInit /\ [][Next]_vars

\* ------------------------------------------------------------------ claims

\* A task has run monitor_subnet's comparison (lines 103-141) on a sample.
Processed(a) ==
    /\ task[a].sample \in Prices
    /\ task[a].pc \notin {"idle", "process"}

\* C1: at most one PriceSource fetch is in flight at any moment, whether it
\* comes from a cycle task, from the startup loops or from the baseline
\* alarm.
C1_FetchesSerialized == Cardinality(InFlight) <= 1

\* C2: the cycle is a barrier: whenever the scheduler is not waiting on the
\* futures of the current cycle (it is past the barrier, sleeping or about
\* to submit the next cycle; an interrupted scheduler waits on them in the
\* executor's shutdown), no per-subnet task is queued or running.
C2_CycleBarrier ==
    main.pc \notin {"wait", "shutdown"} =>
        \A a \in Subnets : task[a].pc \in {"idle", "done"}

\* C2 witness: a second cycle is in progress (a task carries the price of
\* an earlier cycle) with two subnets, one finished and one still fetching.
C2_Witness ==
    /\ main.pc = "wait"
    /\ config.n = 2
    /\ \E a, b \in Subnets :
          /\ task[a].pc = "done"
          /\ task[a].prev \in Prices
          /\ task[b].pc = "fetching"

\* C3: when a subnet's fetch fails in a cycle, its last price and last
\* check time are as they were at the start of the cycle, no cycle alert is
\* dispatched and no baseline check is made; and the last price differs
\* from its value at the start of the cycle only after a successful fetch.
C3_FailedFetchSkips ==
    \A a \in Subnets :
        /\ task[a].sample = Err =>
              /\ last_prices[a] = task[a].prev
              /\ last_check_time[a] # Fresh
              /\ task[a].alert = "none"
              /\ ~task[a].sound
              /\ ~task[a].notif
              /\ task[a].log = "none"
              /\ ~task[a].checked
              /\ task[a].alarm = "none"
              /\ ~task[a].alarmNotif
              /\ ~task[a].alarmSound
        /\ last_prices[a] # task[a].prev => task[a].sample \in Prices

\* C3 witness: a task has ended on a failed fetch while the subnet has a
\* price from an earlier cycle.
C3_Witness ==
    \E a \in Subnets :
        /\ task[a].pc = "done"
        /\ task[a].sample = Err
        /\ task[a].prev \in Prices
        /\ last_check_time[a] = Stale

\* C4: once the barrier is passed, every subnet whose fetch succeeded in
\* the cycle has the fetched price as its last price and a check time of
\* this cycle.
C4_AlwaysUpdated ==
    main.pc = "sleep" =>
        \A a \in Subnets :
            task[a].sample \in Prices =>
                /\ last_prices[a] = task[a].sample
                /\ last_check_time[a] = Fresh

\* C5: for a subnet with a previous price p > 0 and a fetched price q, a
\* cycle alert is raised iff q is at least threshold percent above p or at
\* least threshold percent below it (equality included), and the flag
\* handed to play_alert is positive exactly when q > p.
C5_CycleAlertIff ==
    \A a \in Subnets :
        (Processed(a) /\ task[a].prev \in Prices /\ task[a].prev > 0) =>
            LET p == task[a].prev
                q == task[a].sample
                up == q * 100 >= p * (100 + config.threshold)
                down == q * 100 <= p * (100 - config.threshold)
            IN /\ (task[a].alert # "none") <=> (up \/ down)
               /\ (task[a].alert = "pos") <=> ((up \/ down) /\ q > p)

\* C5 witness: a change of exactly +100% against a threshold of 100 has
\* raised a positive alert.
C5_Witness ==
    \E a \in Subnets :
        /\ Processed(a)
        /\ task[a].prev = 1
        /\ task[a].sample = 2
        /\ config.threshold = 100
        /\ task[a].alert = "pos"

\* C6: a task that started without a last price raises no cycle alert, no
\* sound and no notification, whatever the price and the threshold; and the
\* last price is None until such a task has processed its sample, so the
\* startup fetches leave it None.
C6_FirstFetchNoAlert ==
    \A a \in Subnets :
        /\ task[a].prev = None =>
              /\ task[a].alert = "none"
              /\ ~task[a].sound
              /\ ~task[a].notif
        /\ (task[a].prev = None /\ ~Processed(a)) => last_prices[a] = None

\* C6 witness: the first successful fetch of a subnet has been processed
\* under a threshold of 0 and logged as the initial price.
C6_Witness ==
    \E a \in Subnets :
        /\ task[a].prev = None
        /\ Processed(a)
        /\ config.threshold = 0
        /\ task[a].log = "initial"
        /\ last_prices[a] = task[a].sample

\* The baseline check has run on a sample for a subnet whose baseline is a
\* positive price, with the alarm enabled.
AlarmChecked(a) ==
    /\ task[a].checked
    /\ config.alarm_enabled
    /\ initial_prices[a] \in Prices
    /\ initial_prices[a] > 0

\* C7 as stated: with baseline b and sample s, a negative alarm iff
\* change <= -alarm_threshold, a positive alarm iff change >=
\* alarm_threshold and alarm_negative_only is false, no alarm otherwise.
C7_AlarmIffAsStated ==
    \A a \in Subnets :
        AlarmChecked(a) =>
            LET b == initial_prices[a]
                s == task[a].sample
                low == s * 100 <= b * (100 - config.alarm_threshold)
                high == s * 100 >= b * (100 + config.alarm_threshold)
            IN /\ (task[a].alarm = "neg") <=> low
               /\ (task[a].alarm = "pos") <=>
                      (high /\ ~config.alarm_negative_only)
               /\ (task[a].alarm = "none") <=>
                      (~low /\ ~(high /\ ~config.alarm_negative_only))

\* C7 as amended: a negative alarm iff change <= -alarm_threshold; a
\* positive alarm iff change >= alarm_threshold, alarm_negative_only is
\* false and the negative condition does not hold (it is tested first); no
\* alarm otherwise.
C7_AlarmIff ==
    \A a \in Subnets :
        AlarmChecked(a) =>
            LET b == initial_prices[a]
                s == task[a].sample
                low == s * 100 <= b * (100 - config.alarm_threshold)
                high == s * 100 >= b * (100 + config.alarm_threshold)
            IN /\ (task[a].alarm = "neg") <=> low
               /\ (task[a].alarm = "pos") <=>
                      (high /\ ~config.alarm_negative_only /\ ~low)
               /\ (task[a].alarm = "none") <=>
                      (~low /\ ~(high /\ ~config.alarm_negative_only))

\* C7 witness: a sample exactly 100% above the baseline has raised a
\* positive alarm under an alarm threshold of 100.
C7_Witness ==
    \E a \in Subnets :
        /\ AlarmChecked(a)
        /\ initial_prices[a] = 1
        /\ task[a].sample = 2
        /\ config.alarm_threshold = 100
        /\ ~config.alarm_negative_only
        /\ task[a].alarm = "pos"

\* C8: a subnet's baseline changes only in the startup step that stores
\* its initializing fetch, and only from None: it is written at most once,
\* before the first cycle, and no later step changes it.
C8_BaselineWrittenOnce ==
    [][\A a \in Subnets :
          initial_prices'[a] # initial_prices[a] =>
              /\ main.pc = "alarm_init_fetching"
              /\ main.idx = a
              /\ initial_prices[a] = None]_vars

\* C8 witness: an alarm has fired and played its sound on a sample that
\* differs from the baseline, and the baseline is still in place.
C8_Witness ==
    \E a \in Subnets :
        /\ initial_prices[a] \in Prices
        /\ task[a].pc = "done"
        /\ task[a].alarmSound
        /\ task[a].sample \in Prices
        /\ task[a].sample # initial_prices[a]

\* C9: a subnet whose initializing fetch failed has no baseline in any
\* later state, and no alarm, alarm sound or alarm notification is ever
\* raised for it.
C9_FailedBaselineStaysUnset ==
    \A a \in main.init_failed :
        /\ initial_prices[a] = None
        /\ task[a].alarm = "none"
        /\ ~task[a].alarmNotif
        /\ ~task[a].alarmSound

\* C9 witness: in a second or later cycle, a subnet whose initializing
\* fetch failed has fetched a price and passed the baseline check.
C9_Witness ==
    \E a \in main.init_failed :
        /\ task[a].pc = "done"
        /\ task[a].prev \in Prices
        /\ task[a].sample \in Prices
        /\ task[a].checked

\* C10: in every cycle the upstream fetch is invoked at most once per
\* subnet.
C10_OneFetchPerCycle == \A a \in Subnets : task[a].fetches <= 1

\* check_price_change lines 70-94: the alarm is armed for the subnet and
\* price s meets the alarm condition against its positive baseline.
AlarmCondition(a, s) ==
    /\ AlarmArmed(a)
    /\ initial_prices[a] > 0
    /\ AlarmDecision(initial_prices[a], s) \in {"neg", "pos"}

\* C11: no debounce: when the alarm condition held on the subnet's
\* previous processed sample (so the alarm fired in an earlier cycle) and
\* holds again on the sample fetched in this cycle, the task ends with the
\* alarm raised again.
C11_NoDebounce ==
    \A a \in Subnets :
        (/\ task[a].pc = "done"
         /\ task[a].prev \in Prices
         /\ AlarmCondition(a, task[a].prev)
         /\ task[a].sample \in Prices
         /\ AlarmCondition(a, task[a].sample)) =>
            task[a].alarm # "none"

\* C12: with the alarm disabled, the startup makes no initializing fetch
\* and stores no baseline, and no task ever raises an alarm, fetches for
\* it, or dispatches its sound or its notification.
C12_DisabledAlarmInert ==
    ~config.alarm_enabled =>
        /\ main.pc # "alarm_init_fetching"
        /\ alarm_lock = None
        /\ \A a \in Subnets :
              /\ initial_prices[a] = None
              /\ task[a].alarm = "none"
              /\ ~task[a].alarmNotif
              /\ ~task[a].alarmSound
              /\ task[a].pc \notin {"trigger", "alarm_fetch_wait",
                                    "alarm_fetching", "alarm_playing"}

\* C12 witness: with the alarm disabled, a task of a second or later cycle
\* has passed the baseline check on a sample that differs from the
\* previous price.
C12_Witness ==
    /\ ~config.alarm_enabled
    /\ \E a \in Subnets :
          /\ task[a].checked
          /\ task[a].prev \in Prices
          /\ task[a].sample \in Prices
          /\ task[a].sample # task[a].prev

\* The scheduler has left monitor_loop: it runs no further cycle.
Stopped == main.pc \in {"shutdown", "cleanup", "exited"}

\* C13: errors are isolated per subnet.  The scheduler leaves its loop
\* only on an interrupt, never on what a task raised; and once the barrier
\* is passed every task has finished, and each task whose own fetch and
\* comparison did not fail has recorded its sample and made its baseline
\* check, whatever happened to the other tasks.
C13_ErrorsIsolated ==
    /\ Stopped => main.interrupted
    /\ main.pc = "sleep" =>
          \A b \in Subnets :
              /\ task[b].pc = "done"
              /\ (task[b].sample \in Prices /\ task[b].prev # 0) =>
                    /\ last_prices[b] = task[b].sample
                    /\ last_check_time[b] = Fresh
                    /\ task[b].checked

\* C13 witness: a cycle of two subnets is over in which one task ended on
\* an exception and the other recorded its sample and made its baseline
\* check.
C13_Witness ==
    /\ main.pc = "sleep"
    /\ \E a, b \in Subnets :
          /\ task[a].raised
          /\ task[b].sample \in Prices
          /\ ~task[b].raised
          /\ task[b].checked
          /\ last_prices[b] = task[b].sample

\* C14: a lock has a holder only while that holder is inside the fetch
\* call the lock guards: a task that compares, logs, dispatches or makes
\* the baseline decision holds no lock.
C14_LockOnlyDuringFetch ==
    /\ subtensor_lock # None =>
          IF subtensor_lock = MainThread
          THEN main.pc = "info_fetching"
          ELSE task[subtensor_lock].pc = "fetching"
    /\ alarm_lock # None =>
          IF alarm_lock = MainThread
          THEN main.pc = "alarm_init_fetching"
          ELSE task[alarm_lock].pc = "alarm_fetching"

\* C14 witness: one task is inside its fetch, holding the lock, while
\* another task is past its comparison and about to make the baseline
\* decision.
C14_Witness ==
    \E a, b \in Subnets :
        /\ subtensor_lock = a
        /\ task[a].pc = "fetching"
        /\ task[b].pc = "baseline"

\* C15: the number of per-subnet tasks running at any moment is at most
\* min(number of subnets, 10), with more than 10 subnets too.
C15_PoolLimit == Cardinality(Running) <= Min(config.n, MaxWorkers)

\* C15 witness: with more than 10 subnets, 10 tasks are running and a
\* further one is waiting in the queue.
C15_Witness ==
    /\ config.n > MaxWorkers
    /\ Cardinality(Running) = MaxWorkers
    /\ Queued # {}

\* C16: once an interrupt has arrived inside monitor_loop, during a cycle
\* or during the sleep, no further cycle is submitted; the process exits
\* only after the pool has been shut down with every submitted task
\* finished; and the process does exit.
C16_InterruptTerminates ==
    /\ [][main.interrupted =>
             \A a \in Subnets : task'[a].pc = "queued" =>
                                    task[a].pc = "queued"]_vars
    /\ [](main.interrupted => Stopped)
    /\ [](main.pc = "exited" =>
             /\ main.shut
             /\ \A a \in Subnets : task[a].pc \in {"idle", "done"})
    /\ (main.interrupted ~> main.pc = "exited")

\* C16 witness: the interrupt has arrived while a cycle was in progress,
\* with one task inside its fetch and another still queued.
C16_Witness ==
    /\ main.pc = "shutdown"
    /\ main.interrupted
    /\ \E a, b \in Subnets :
          /\ task[a].pc = "fetching"
          /\ task[b].pc = "queued"

\* _trigger_alarm lines 117-120: the task is inside subprocess.run, which
\* returns only when the player has exited.
WaitsForEffect(a) == task[a].pc = "alarm_playing"

\* C17: dispatch is fire-and-forget: no task ever waits for a sound or a
\* notification to finish.
C17_FireAndForget == \A a \in Subnets : ~WaitsForEffect(a)

\* C18: for a cycle that took T with interval I the sleep is I - T when
\* T < I and 0 otherwise: never negative, and a cycle start is followed by
\* the next one no sooner than I later.
C18_SleepExact ==
    main.pc = "sleep" =>
        /\ main.sleep_time >= 0
        /\ main.elapsed < config.interval =>
               main.sleep_time = config.interval - main.elapsed
        /\ main.elapsed >= config.interval => main.sleep_time = 0
        /\ main.elapsed + main.sleep_time >= config.interval

\* C18 witness: a cycle has taken longer than a positive interval, and
\* the sleep is 0.
C18_Witness ==
    /\ main.pc = "sleep"
    /\ config.interval > 0
    /\ main.elapsed > config.interval
    /\ main.sleep_time = 0

\* C19: the step that makes the cycle comparison decides on the change
\* against the price the subnet had when the cycle started and leaves
\* every baseline as it is; the step that makes the baseline decision
\* decides on the change against the baseline and leaves every last price
\* as it is.
C19_SeparateReferences ==
    [][\A a \in Subnets :
          /\ (task[a].pc = "process" /\ task'[a].pc # "process") =>
                /\ initial_prices' = initial_prices
                /\ (task[a].prev \in Prices /\ task[a].prev > 0) =>
                      LET p == task[a].prev
                          q == task[a].sample
                      IN (task'[a].alert # "none") <=>
                             \/ q * 100 >= p * (100 + config.threshold)
                             \/ q * 100 <= p * (100 - config.threshold)
          /\ (task[a].pc = "baseline" /\ task'[a].pc # "baseline") =>
                /\ last_prices' = last_prices
                /\ (AlarmArmed(a) /\ initial_prices[a] > 0) =>
                      LET b == initial_prices[a]
                          s == task[a].sample
                          low == s * 100 <=
                                     b * (100 - config.alarm_threshold)
                          high == s * 100 >=
                                      b * (100 + config.alarm_threshold)
                      IN (task'[a].alarm # "none") <=>
                             \/ low
                             \/ high /\ ~config.alarm_negative_only]_vars

\* C19 witness: a subnet whose last price differed from its baseline has
\* been sampled; against the last price the sample raised no cycle alert,
\* against the baseline it raised an alarm.
C19_Witness ==
    \E a \in Subnets :
        /\ task[a].checked
        /\ task[a].prev \in Prices
        /\ task[a].prev > 0
        /\ initial_prices[a] \in Prices
        /\ initial_prices[a] > 0
        /\ task[a].prev # initial_prices[a]
        /\ task[a].alert = "none"
        /\ task[a].alarm # "none"

\* C20: the two thresholds are independent: a task that ends on a sample
\* which crosses the cycle threshold against the last price and meets the
\* alarm condition against the baseline has raised both the cycle alert
\* and the alarm; and such a task exists (the witness).
C20_BothFire ==
    \A a \in Subnets :
        (/\ task[a].pc = "done"
         /\ task[a].sample \in Prices
         /\ task[a].prev \in Prices
         /\ task[a].prev > 0
         /\ \/ task[a].sample * 100 >=
                   task[a].prev * (100 + config.threshold)
            \/ task[a].sample * 100 <=
                   task[a].prev * (100 - config.threshold)
         /\ AlarmCondition(a, task[a].sample)) =>
            /\ task[a].alert # "none"
            /\ task[a].alarm # "none"

\* C20 witness: one task has raised, on one sample, a cycle alert and an
\* alarm, under thresholds of 100 percent.
C20_Witness ==
    \E a \in Subnets :
        /\ config.threshold = 100
        /\ config.alarm_threshold = 100
        /\ task[a].sample \in Prices
        /\ task[a].alert # "none"
        /\ task[a].alarm # "none"

\* C21: a reference price of 0 makes the change absent, not an error: a
\* task that ends on a fetched sample, with a last price of 0 or (alarm on)
\* a baseline of 0, has raised nothing, has recorded the sample and has
\* made its baseline check.
C21_ZeroReferenceAbsent ==
    \A a \in Subnets :
        (/\ task[a].pc = "done"
         /\ task[a].sample \in Prices
         /\ \/ task[a].prev = 0
            \/ config.alarm_enabled /\ initial_prices[a] = 0) =>
            /\ ~task[a].raised
            /\ last_prices[a] = task[a].sample
            /\ task[a].checked

\* C22: with alerts_positive_only, a cycle alert on a falling price starts
\* neither the sound nor the notification, and one on a rising price
\* starts the sound (if alerts_on) and the notification (if
\* notifications_on, on a host that supports it) as usual.
C22_PositiveOnly ==
    config.alerts_positive_only =>
        \A a \in Subnets :
            /\ task[a].alert = "neg" => ~task[a].sound /\ ~task[a].notif
            /\ task[a].alert = "pos" =>
                  /\ task[a].sound <=> config.alerts_on
                  /\ task[a].notif <=>
                         (config.notifications_on /\ config.supported)

\* C22 witness: with alerts_positive_only and every other switch on, a
\* falling price has raised a cycle alert without sound or notification.
C22_Witness ==
    /\ config.alerts_positive_only
    /\ config.alerts_on
    /\ config.notifications_on
    /\ config.supported
    /\ \E a \in Subnets :
          /\ task[a].prev \in Prices
          /\ task[a].sample \in Prices
          /\ task[a].sample < task[a].prev
          /\ task[a].alert = "neg"
          /\ ~task[a].sound
          /\ ~task[a].notif

\* C23: with notifications_on false no notification is ever started, for
\* a cycle alert or for an alarm, and no task fetches a price for one.
C23_NotificationsSwitch ==
    ~config.notifications_on =>
        \A a \in Subnets :
            /\ ~task[a].notif
            /\ ~task[a].alarmNotif
            /\ task[a].pc \notin {"alarm_fetch_wait", "alarm_fetching"}

\* C23 witness: with notifications_on false on a host that supports
\* notifications, a task has raised a cycle alert and an alarm and has
\* played the alarm sound.
C23_Witness ==
    /\ ~config.notifications_on
    /\ config.supported
    /\ \E a \in Subnets :
          /\ task[a].pc = "done"
          /\ task[a].alert # "none"
          /\ task[a].alarm # "none"
          /\ task[a].alarmSound

\* C24: with alerts_on false no cycle alert sound is ever started, while
\* the alert is decided, the notification started and the last price
\* recorded as they are with alerts_on true.
C24_AlertsSwitch ==
    ~config.alerts_on =>
        \A a \in Subnets :
            /\ ~task[a].sound
            /\ (Processed(a) /\ task[a].prev \in Prices
                /\ task[a].prev > 0) =>
                  LET p == task[a].prev
                      q == task[a].sample
                      crossed ==
                          \/ q * 100 >= p * (100 + config.threshold)
                          \/ q * 100 <= p * (100 - config.threshold)
                  IN /\ (task[a].alert # "none") <=> crossed
                     /\ task[a].notif <=>
                            /\ crossed
                            /\ config.notifications_on
                            /\ config.supported
                            /\ (q > p \/ ~config.alerts_positive_only)
                     /\ last_prices[a] = q

\* C24 witness: with alerts_on false, a rising price has raised a cycle
\* alert and its notification, without the sound, and is recorded.
C24_Witness ==
    /\ ~config.alerts_on
    /\ \E a \in Subnets :
          /\ task[a].alert = "pos"
          /\ task[a].notif
          /\ ~task[a].sound
          /\ last_prices[a] = task[a].sample

\* C25: a change below the threshold in absolute value starts no sound
\* and no notification, and the sample is logged iff log_threshold_only is
\* false.
C25_BelowThresholdQuiet ==
    \A a \in Subnets :
        (/\ Processed(a)
         /\ task[a].prev \in Prices
         /\ task[a].prev > 0
         /\ task[a].sample * 100 < task[a].prev * (100 + config.threshold)
         /\ task[a].sample * 100 >
                task[a].prev * (100 - config.threshold)) =>
            /\ task[a].alert = "none"
            /\ ~task[a].sound
            /\ ~task[a].notif
            /\ task[a].log = IF config.log_threshold_only THEN "none"
                             ELSE "normal"

\* C25 witness: a change of -50% under a threshold of 100 with
\* log_threshold_only set: nothing is dispatched and nothing is logged.
C25_Witness ==
    /\ config.threshold = 100
    /\ config.log_threshold_only
    /\ \E a \in Subnets :
          /\ Processed(a)
          /\ task[a].prev = 2
          /\ task[a].sample = 1
          /\ task[a].log = "none"

\* C26: the same price in two consecutive successful cycles yields a
\* change (of 0: the comparison returns and the task goes on to record the
\* sample), and no cycle alert under a threshold above 0.
C26_SamePriceNoAlert ==
    \A a \in Subnets :
        (/\ Processed(a)
         /\ task[a].prev \in Prices
         /\ task[a].sample = task[a].prev
         /\ config.threshold > 0) =>
            /\ ~task[a].raised \/ task[a].checked
            /\ last_check_time[a] = Fresh
            /\ task[a].alert = "none"
            /\ ~task[a].sound
            /\ ~task[a].notif

\* C27: the step of a subnet's task leaves the last price of every other
\* subnet as it is, and stamps no other subnet's check time.
C27_OwnTaskOnly ==
    [][\A a, b \in Subnets :
          (a # b /\ task'[a] # task[a] /\ task'[b] = task[b]) =>
              /\ last_prices'[Netuid(b)] = last_prices[Netuid(b)]
              /\ last_check_time'[Netuid(b)] = Fresh =>
                     last_check_time[Netuid(b)] = Fresh]_vars

\* The upstream call of subnet a's task has blocked for good.
Hung(a) == task[a].pc = "hung"

\* C28: once a fetch call has blocked for good, its task stays in the
\* call holding the lock, no task that waits for the lock starts its
\* fetch, the scheduler stays at the barrier (or in the shutdown that
\* waits for the same futures) and no further cycle is submitted.
C28_HungFetchStalls ==
    [][\A a \in Subnets :
          Hung(a) =>
              /\ task'[a].pc = "hung"
              /\ subtensor_lock' = a
              /\ main'.pc \in {"wait", "shutdown"}
              /\ \A b \in Subnets :
                    /\ task[b].pc = "fetch_wait" =>
                           task'[b].pc = "fetch_wait"
                    /\ task'[b].pc = "queued" => task[b].pc = "queued"]_vars

\* C28 witness: one task is hung in its fetch while the other waits for
\* the lock and the scheduler is at the barrier.
C28_Witness ==
    /\ main.pc = "wait"
    /\ \E a, b \in Subnets :
          /\ Hung(a)
          /\ task[b].pc = "fetch_wait"

\* C29: on a host where the notifier is not supported, no notification is
\* started, for a cycle alert or for an alarm, and the task that asked for
\* one goes on.
C29_UnsupportedNotifier ==
    ~config.supported =>
        \A a \in Subnets : ~task[a].notif /\ ~task[a].alarmNotif

\* C29 witness: without notifier support and with notifications_on, a task
\* has raised a cycle alert and an alarm, asked for both notifications and
\* run to its end without an exception.
C29_Witness ==
    /\ ~config.supported
    /\ config.notifications_on
    /\ \E a \in Subnets :
          /\ task[a].pc = "done"
          /\ task[a].alert # "none"
          /\ task[a].alarm # "none"
          /\ task[a].fetches = 2
          /\ task[a].alarmSound
          /\ ~task[a].raised

C31_LockFreeAfterFetch ==
    [][/\ \A a \in Subnets :
            /\ (task[a].pc = "fetching" /\ task'[a].pc # "fetching") =>
                   subtensor_lock' = None
            /\ (task[a].pc = "alarm_fetching"
                 /\ task'[a].pc # "alarm_fetching") =>
                   alarm_lock' = None
            /\ (task[a].pc = "done" /\ task[a].sample = Err) =>
                   subtensor_lock # a
       /\ (main.pc = "info_fetching" /\ main'.pc # "info_fetching") =>
              subtensor_lock' = None
       /\ (main.pc = "alarm_init_fetching"
            /\ main'.pc # "alarm_init_fetching") =>
              alarm_lock' = None]_vars

\* C31 witness: the fetch of one task has failed and, in the same cycle,
\* another task has taken the lock and is inside its own fetch.
C31_Witness ==
    \E a, b \in Subnets :
        /\ task[a].pc = "done"
        /\ task[a].sample = Err
        /\ task[a].fetches = 1
        /\ subtensor_lock = b
        /\ task[b].pc = "fetching"

\* C32: the baseline check is made on every successfully fetched sample,
\* the first one of a subnet included, and after the sample has been
\* recorded as the last price: a task that waits for or has made the check
\* has recorded its sample, and a task that ends on a fetched sample has
\* made the check.
C32_BaselineEveryFetch ==
    \A a \in Subnets :
        /\ (task[a].pc = "baseline" \/ task[a].checked) =>
               last_prices[Netuid(a)] = task[a].sample
        /\ (task[a].pc = "done" /\ task[a].sample \in Prices) =>
               task[a].checked

\* C33: a baseline alarm that has fired has played its sound when the
\* task ends, whatever alerts_on and notifications_on say, and with
\* alerts_positive_only a negative alarm has sent no notification.
C33_AlarmSoundAlways ==
    \A a \in Subnets :
        (task[a].pc = "done" /\ task[a].alarm # "none") =>
            /\ task[a].alarmSound
            /\ (task[a].alarm = "neg" /\ config.alerts_positive_only) =>
                   ~task[a].alarmNotif

====
